---- MODULE Spec2Model ----
(***************************************************************************)
(* Model of the mail worker of bestK/email_worker_parser (src/src/index.ts)*)
(*                                                                         *)
(* JavaScript strings are tuples of one-character strings, so that split,  *)
(* parseInt and the SQL comparison are computed character by character.    *)
(* The JavaScript values undefined and null are the tuples UNDEF and NULL, *)
(* whose single element is not a character.                                *)
(***************************************************************************)
EXTENDS Integers, Sequences, FiniteSets, TLC

(***************************************************************************)
(* Bounds of the model.                                                    *)
(***************************************************************************)
MaxEvents == 2
MaxTime == 1
MaxChunks == 1
MaxRows == 2
\* pieces a text handed to the parser is made of
MaxPieces == 3

(***************************************************************************)
(* JavaScript values.                                                      *)
(***************************************************************************)
UNDEF == <<"undefined">>
NULL == <<"null">>
NONE == <<"N", "o", "n", "e">>
\* an address list that is undefined (parsedEmail.to of a message without To)
NOLIST == <<UNDEF>>

A_COM == <<"a", "@", "x", ".", "c", "o", "m">>
B_COM == <<"b", "@", "x", ".", "c", "o", "m">>
USER_MIXED ==
    <<"U", "s", "e", "r", "@", "E", "x", "a", "m", "p", "l", "e", ".", "c", "o", "m">>
USER_LOWER ==
    <<"u", "s", "e", "r", "@", "e", "x", "a", "m", "p", "l", "e", ".", "c", "o", "m">>
SENDER == <<"s", "@", "y", ".", "c", "o", "m">>
SUBJ == <<"H", "i">>
HTML_BODY == <<"<", "p", ">">>
\* "Code is\n 654321"
TEXT_BODY == <<"C", "o", "d", "e", " ", "i", "s", "\n", " ", "6", "5", "4", "3", "2", "1">>

(***************************************************************************)
(* Configuration and inputs.                                               *)
(***************************************************************************)
\* values of env.forward_address: "", "a@x.com;b@x.com", "a@x.com;;  b@x.com"
ForwardSettings ==
    { <<>>,
      A_COM \o <<";">> \o B_COM,
      A_COM \o <<";", ";", " ", " ">> \o B_COM }

\* a parsed message: every header and body may be absent
Email(subject, from, to, html, text) ==
    [subject |-> subject, from |-> from, to |-> to, html |-> html, text |-> text]

\* what PostalMime.parse can deliver: complete messages with no, one mixed-case
\* or one lower-case recipient, and messages lacking one or all of the fields
ParsedEmails ==
    { Email(SUBJ, SENDER, <<USER_MIXED>>, HTML_BODY, TEXT_BODY),
      Email(SUBJ, SENDER, <<USER_LOWER>>, HTML_BODY, TEXT_BODY),
      Email(SUBJ, SENDER, <<>>, HTML_BODY, TEXT_BODY),
      Email(SUBJ, SENDER, NOLIST, HTML_BODY, TEXT_BODY),
      Email(UNDEF, SENDER, <<USER_MIXED>>, HTML_BODY, TEXT_BODY),
      Email(SUBJ, UNDEF, <<USER_MIXED>>, HTML_BODY, TEXT_BODY),
      Email(SUBJ, SENDER, <<USER_MIXED>>, UNDEF, TEXT_BODY),
      Email(SUBJ, SENDER, <<USER_MIXED>>, HTML_BODY, UNDEF),
      Email(UNDEF, UNDEF, <<>>, UNDEF, UNDEF),
      Email(UNDEF, UNDEF, NOLIST, UNDEF, UNDEF) }

NoEmail == Email(UNDEF, UNDEF, NOLIST, UNDEF, UNDEF)

(***************************************************************************)
(* String.prototype.split with a one-character separator.                  *)
(***************************************************************************)
IndexOf(s, c) ==
    IF \E i \in 1..Len(s) : s[i] = c
    THEN CHOOSE i \in 1..Len(s) : s[i] = c /\ \A j \in 1..(i - 1) : s[j] # c
    ELSE 0

RECURSIVE SplitOn(_, _)
SplitOn(s, c) ==
    LET i == IndexOf(s, c)
    IN  IF i = 0
        THEN <<s>>
        ELSE <<SubSeq(s, 1, i - 1)>> \o SplitOn(SubSeq(s, i + 1, Len(s)), c)

\* the forward list of the finally block
ForwardList(setting) == SplitOn(setting, ";")

(***************************************************************************)
(* The values bound to the INSERT statement.                               *)
(***************************************************************************)
\* a ?? b
Coalesce(a, b) == IF a = UNDEF \/ a = NULL THEN b ELSE a

\* parsedEmail.to[0] throws a TypeError when parsedEmail.to is undefined
BindThrows(m) == m.to = NOLIST

BindValues(m) ==
    [ subject |-> Coalesce(m.subject, NONE),
      from |-> m.from,
      to |-> Coalesce(IF Len(m.to) = 0 THEN UNDEF ELSE m.to[1], NONE),
      html |-> m.html,
      text |-> m.text ]

NoBind == [subject |-> NULL, from |-> NULL, to |-> NULL, html |-> NULL, text |-> NULL]

BindFields == {"subject", "from", "to", "html", "text"}

\* D1 rejects a bind whose arguments contain undefined (D1_TYPE_ERROR)
StorageRejects(b) == \E f \in BindFields : b[f] = UNDEF

(***************************************************************************)
(* Control flow of try / catch / finally in the email handler: where the   *)
(* task goes after a stage completed ("ok") or threw ("fail").             *)
(***************************************************************************)
\* AfterStage with the forward loop placed at the end of the try block: an
\* INSERT that throws skips it
AfterStageForwardInTry(stage, outcome) ==
    IF outcome = "fail"
    THEN IF stage = "insert" THEN "done" ELSE "finally"
    ELSE CASE stage = "read" -> "parsing"
           [] stage = "parse" -> "inserting"
           [] stage = "insert" -> "finally"

\* AfterStage with the INSERT run on the bytes as they were read, without
\* waiting for a parse
AfterStageSkipParse(stage, outcome) ==
    IF outcome = "fail"
    THEN "finally"
    ELSE CASE stage = "read" -> "inserting"
           [] stage = "parse" -> "inserting"
           [] stage = "insert" -> "finally"

\* AfterStage with a read error swallowed inside streamToArrayBuffer: the
\* handler goes on to parse what was read
AfterStageReadSwallowed(stage, outcome) ==
    IF outcome = "fail"
    THEN IF stage = "read" THEN "parsing" ELSE "finally"
    ELSE CASE stage = "read" -> "parsing"
           [] stage = "parse" -> "inserting"
           [] stage = "insert" -> "finally"

AfterStage(stage, outcome) ==
    IF outcome = "fail" THEN "finally"
    ELSE CASE stage = "read" -> "parsing"
           [] stage = "parse" -> "inserting"
           [] stage = "insert" -> "finally"

\* the catch clause swallows the exception: nothing stays pending
CatchClause(e) == "none"

(***************************************************************************)
(* parseInt(s, 10): leading white space, an optional sign, then the longest*)
(* run of decimal digits; NaN when there is no digit.  A number is a record*)
(* with the flag nan and the value n.                                      *)
(***************************************************************************)
Digits == <<"0", "1", "2", "3", "4", "5", "6", "7", "8", "9">>
IsDigit(c) == \E d \in 1..10 : Digits[d] = c
DigitVal(c) == (CHOOSE d \in 1..10 : Digits[d] = c) - 1

Num(n) == [nan |-> FALSE, n |-> n]
NaN == [nan |-> TRUE, n |-> 0]

RECURSIVE StripLeft(_)
StripLeft(s) ==
    IF Len(s) > 0 /\ s[1] = " " THEN StripLeft(Tail(s)) ELSE s

RECURSIVE DigitsValue(_, _)
\* value of the longest digit prefix of s, continuing the value acc
DigitsValue(s, acc) ==
    IF Len(s) > 0 /\ IsDigit(s[1])
    THEN DigitsValue(Tail(s), 10 * acc + DigitVal(s[1]))
    ELSE acc

ParseInt(s) ==
    LET t == StripLeft(s)
        signed == Len(t) > 0 /\ t[1] \in {"-", "+"}
        u == IF signed THEN Tail(t) ELSE t
    IN  IF Len(u) > 0 /\ IsDigit(u[1])
        THEN Num((IF signed /\ t[1] = "-" THEN -1 ELSE 1) * DigitsValue(u, 0))
        ELSE NaN

\* const maxResults = limit ? parseInt(limit, 10) : 10;
\* searchParams.get gives null for a missing parameter
MaxResults(limit) ==
    IF limit = NULL \/ Len(limit) = 0 THEN Num(10) ELSE ParseInt(limit)

\* values of the query parameter limit: missing, "", "abc", "0", "999", "7",
\* "-1"
LimitInputs ==
    { NULL, <<>>, <<"a", "b", "c">>, <<"0">>, <<"9", "9", "9">>, <<"7">>,
      <<"-", "1">> }

\* values of the path parameter address
AddressInputs == {USER_MIXED, USER_LOWER}

(***************************************************************************)
(* The cursor parser (src/src/parser/cursor.js).                           *)
(***************************************************************************)
IsSpace(c) == c \in {" ", "\n", "\t"}

RECURSIVE CollapseSpace(_)
\* text.replace(/\s+/g, ' ')
CollapseSpace(s) ==
    IF Len(s) = 0 THEN <<>>
    ELSE IF IsSpace(s[1])
         THEN IF Len(s) > 1 /\ IsSpace(s[2])
              THEN CollapseSpace(Tail(s))
              ELSE <<" ">> \o CollapseSpace(Tail(s))
         ELSE <<s[1]>> \o CollapseSpace(Tail(s))

RECURSIVE TrimSpace(_)
\* String.prototype.trim
TrimSpace(s) ==
    IF Len(s) > 0 /\ IsSpace(s[1]) THEN TrimSpace(Tail(s))
    ELSE IF Len(s) > 0 /\ IsSpace(s[Len(s)]) THEN TrimSpace(SubSeq(s, 1, Len(s) - 1))
    ELSE s

UpperCase == <<"A", "B", "C", "D", "E", "F", "G", "H", "I", "J", "K", "L", "M",
               "N", "O", "P", "Q", "R", "S", "T", "U", "V", "W", "X", "Y", "Z">>
LowerCase == <<"a", "b", "c", "d", "e", "f", "g", "h", "i", "j", "k", "l", "m",
               "n", "o", "p", "q", "r", "s", "t", "u", "v", "w", "x", "y", "z">>

\* the letter c without its case, as the flag i of a pattern compares it
FoldChar(c) ==
    IF \E k \in 1..26 : UpperCase[k] = c
    THEN LowerCase[CHOOSE k \in 1..26 : UpperCase[k] = c]
    ELSE c
Fold(s) == [i \in 1..Len(s) |-> FoldChar(s[i])]

PHRASE == <<"o", "n", "e", "-", "t", "i", "m", "e", " ", "c", "o", "d", "e", " ", "i", "s">>

RECURSIVE SkipSpace(_, _)
\* the position after the white space of s that starts at position i
SkipSpace(s, i) == IF i <= Len(s) /\ IsSpace(s[i]) THEN SkipSpace(s, i + 1) ELSE i

RECURSIVE DigitRun(_, _)
\* the longest run of digits of s that starts at position i
DigitRun(s, i) ==
    IF i <= Len(s) /\ IsDigit(s[i]) THEN <<s[i]>> \o DigitRun(s, i + 1) ELSE <<>>

\* the capture of /one-time code is:?\s*(\d+)/i matched at position i of s,
\* or the empty string when the pattern does not match there
PhraseCaptureAt(s, i) ==
    IF i + Len(PHRASE) - 1 <= Len(s)
       /\ Fold(SubSeq(s, i, i + Len(PHRASE) - 1)) = PHRASE
    THEN LET j == i + Len(PHRASE)
             k == IF j <= Len(s) /\ s[j] = ":" THEN j + 1 ELSE j
         IN  DigitRun(s, SkipSpace(s, k))
    ELSE <<>>

\* the first six digits in a row of s that start at position i
SixDigitsAt(s, i) ==
    IF i + 5 <= Len(s) /\ \A k \in i..(i + 5) : IsDigit(s[k])
    THEN SubSeq(s, i, i + 5)
    ELSE <<>>

\* export default function parse(text)
CursorParse(text) ==
    LET cleanText == TrimSpace(CollapseSpace(text))
        phraseAt == {i \in 1..Len(cleanText) : PhraseCaptureAt(cleanText, i) # <<>>}
        sixAt == {i \in 1..Len(cleanText) : SixDigitsAt(cleanText, i) # <<>>}
        First(S) == CHOOSE i \in S : \A j \in S : i <= j
    IN  IF phraseAt # {} THEN PhraseCaptureAt(cleanText, First(phraseAt))
        ELSE IF sixAt # {} THEN SixDigitsAt(cleanText, First(sixAt))
        ELSE NULL

CURSOR == <<"c", "u", "r", "s", "o", "r">>
OTHER_PARSER == <<"n", "o", "p", "e">>

\* the names registered in parsers (src/src/parser/index.js)
ParserNames == {CURSOR}

\* values of the query parameter parser: missing, "cursor", "nope"
ParserInputs == {NULL, CURSOR, OTHER_PARSER}

\* const parser = parserName ? parsers[parserName] : null;
HasParser(parserName) ==
    parserName # NULL /\ Len(parserName) > 0 /\ parserName \in ParserNames

\* calling parser(item.text) throws a TypeError when text is null
ParserThrows(row) == row.text = NULL

\* WithParsedCode with the parser applied to the html body
WithParsedCodeFromHtml(row) == row @@ [parsed_code |-> CursorParse(row.html)]

\* item['parsed_code'] = parser(item.text)
WithParsedCode(row) == row @@ [parsed_code |-> CursorParse(row.text)]

(***************************************************************************)
(* SELECT ... FROM Email WHERE "to" = ? ORDER BY createdAt DESC LIMIT ?    *)
(***************************************************************************)
\* "to" = ? compares with the BINARY collation
WhereTo(row, address) == row.to = address

\* positions in table of the rows the WHERE clause selects
Selected(table, address) == {i \in 1..Len(table) : WhereTo(table[i], address)}

\* the orders ORDER BY createdAt DESC can give to the rows at positions sel:
\* rows of equal createdAt come in either order
Orderings(table, sel) ==
    { p \in [1..Cardinality(sel) -> sel] :
        /\ \A i, j \in 1..Cardinality(sel) : i # j => p[i] # p[j]
        /\ \A i, j \in 1..Cardinality(sel) :
              i < j => table[p[i]].createdAt >= table[p[j]].createdAt }

\* LIMIT k: a negative k is no limit
Take(q, k) == IF k < 0 \/ k >= Len(q) THEN q ELSE SubSeq(q, 1, k)

\* the row counts LIMIT ? can use: the bound number, or whatever the storage
\* makes of a bound NaN
LimitCounts(maxResults, n) ==
    IF maxResults.nan THEN -1..n ELSE {maxResults.n}

\* SELECT "subject", "from", "to", "html", "text", "createdAt"
Columns(row) ==
    [ subject |-> row.subject, from |-> row.from, to |-> row.to,
      html |-> row.html, text |-> row.text, createdAt |-> row.createdAt ]

\* the result lists of a successful select
SelectResults(table, address, maxResults) ==
    LET sel == Selected(table, address)
    IN  { Take([i \in 1..Cardinality(sel) |-> Columns(table[p[i]])], k) :
            p \in Orderings(table, sel),
            k \in LimitCounts(maxResults, Cardinality(sel)) }

(***************************************************************************)
(* decodeURIComponent: a character other than the percent sign stands for  *)
(* itself, a percent sign with two hexadecimal digits is a byte, and the   *)
(* bytes form UTF-8; anything else throws a URIError.                      *)
(***************************************************************************)
URI_ERROR == <<"URIError">>

HexUpper == <<"0", "1", "2", "3", "4", "5", "6", "7", "8", "9",
              "A", "B", "C", "D", "E", "F">>
HexLower == <<"0", "1", "2", "3", "4", "5", "6", "7", "8", "9",
              "a", "b", "c", "d", "e", "f">>
IsHex(c) == \E d \in 1..16 : HexUpper[d] = c \/ HexLower[d] = c
HexVal(c) == (CHOOSE d \in 1..16 : HexUpper[d] = c \/ HexLower[d] = c) - 1

\* the characters of the codes 0 to 127; a control character and the grave
\* accent are named by their codes
Ascii ==
    <<
      "x00", "x01", "x02", "x03", "x04", "x05", "x06", "x07", "x08", "\t",
      "\n", "x0B", "x0C", "\r", "x0E", "x0F", "x10", "x11", "x12", "x13",
      "x14", "x15", "x16", "x17", "x18", "x19", "x1A", "x1B", "x1C", "x1D",
      "x1E", "x1F", " ", "!", "\"", "#", "$", "%", "&", "'", "(", ")", "*",
      "+", ",", "-", ".", "/", "0", "1", "2", "3", "4", "5", "6", "7", "8",
      "9", ":", ";", "<", "=", ">", "?", "@", "A", "B", "C", "D", "E", "F",
      "G", "H", "I", "J", "K", "L", "M", "N", "O", "P", "Q", "R", "S", "T",
      "U", "V", "W", "X", "Y", "Z", "[", "\\", "]", "^", "_", "x60", "a",
      "b", "c", "d", "e", "f", "g", "h", "i", "j", "k", "l", "m", "n", "o",
      "p", "q", "r", "s", "t", "u", "v", "w", "x", "y", "z", "{", "|", "}",
      "~", "x7F" >>

\* the byte that the escape at position i of s stands for, -1 when there is
\* no escape
ByteAt(s, i) ==
    IF i + 2 <= Len(s) /\ s[i] = "%" /\ IsHex(s[i + 1]) /\ IsHex(s[i + 2])
    THEN 16 * HexVal(s[i + 1]) + HexVal(s[i + 2])
    ELSE -1

\* the number of bytes that follow the lead byte b of a UTF-8 sequence, -1
\* when b cannot lead
Continuations(b) ==
    IF b \in 194..223 THEN 1
    ELSE IF b \in 224..239 THEN 2
    ELSE IF b \in 240..244 THEN 3
    ELSE -1

\* the values the byte after the lead byte b may have
SecondByteRange(b) ==
    IF b = 224 THEN 160..191
    ELSE IF b = 237 THEN 128..159
    ELSE IF b = 240 THEN 144..191
    ELSE IF b = 244 THEN 128..143
    ELSE 128..191

\* the character of a UTF-8 sequence of more than one byte: U+00E9 is told
\* from the others
Utf8Char(bytes) == IF bytes = <<195, 169>> THEN "U+00E9" ELSE "U+other"

PrependChar(c, rest) == IF rest = URI_ERROR THEN URI_ERROR ELSE <<c>> \o rest

RECURSIVE DecodeURIComponent(_)
DecodeURIComponent(s) ==
    IF Len(s) = 0 THEN <<>>
    ELSE IF s[1] # "%" THEN PrependChar(s[1], DecodeURIComponent(Tail(s)))
    ELSE LET b == ByteAt(s, 1)
             n == Continuations(b)
         IN  IF b < 0 THEN URI_ERROR
             ELSE IF b < 128
                  THEN PrependChar(Ascii[b + 1],
                                   DecodeURIComponent(SubSeq(s, 4, Len(s))))
             ELSE IF n < 0 THEN URI_ERROR
             ELSE IF \A k \in 1..n :
                        /\ ByteAt(s, 1 + 3 * k) \in 128..191
                        /\ k = 1 => ByteAt(s, 4) \in SecondByteRange(b)
                  THEN PrependChar(
                           Utf8Char([k \in 1..(n + 1) |-> ByteAt(s, 3 * k - 2)]),
                           DecodeURIComponent(SubSeq(s, 4 + 3 * n, Len(s))))
                  ELSE URI_ERROR

(***************************************************************************)
(* The route table and matchRoute.                                         *)
(***************************************************************************)
GET == <<"G", "E", "T">>
POST == <<"P", "O", "S", "T">>

PATH_CREATE == <<"/", "e", "m", "a", "i", "l", "/", "c", "r", "e", "a", "t", "e">>
PATH_ADDRESS == <<"/", "e", "m", "a", "i", "l", "/", ":", "a", "d", "d", "r", "e", "s", "s">>
PATH_HELP == <<"/", "h", "e", "l", "p">>
PATH_UI == <<"/", "u", "i">>
PATH_INDEX == <<"/">>

\* routes.push({ method, path, handler })
Register(table, method, path, handler) ==
    Append(table, [method |-> method, path |-> path, handler |-> handler])

\* the table after the module is loaded: the register calls in source order
Routes ==
    Register(
        Register(
            Register(
                Register(
                    Register(<<>>, GET, PATH_CREATE, "create"),
                    GET, PATH_ADDRESS, "address"),
                GET, PATH_HELP, "help"),
            GET, PATH_UI, "ui"),
        GET, PATH_INDEX, "index")

Truthy(x) == Len(x) > 0

RECURSIVE DropLeadingEmpty(_)
DropLeadingEmpty(q) ==
    IF Len(q) > 0 /\ Len(Head(q)) = 0 THEN DropLeadingEmpty(Tail(q)) ELSE q

\* Parts that drops the empty segments in front only
PartsKeepTrailing(path) == DropLeadingEmpty(SplitOn(path, "/"))

\* path.split('/').filter(Boolean)
Parts(path) == SelectSeq(SplitOn(path, "/"), Truthy)

\* params[name] = value
PutParam(params, name, value) ==
    {p \in params : p[1] # name} \cup {<<name, value>>}

RECURSIVE MatchParts(_, _, _, _)
\* the for loop over the segments from position i with the params so far: the
\* params when every segment matched, or "skip", or "throw" of a decode
MatchParts(routeParts, urlParts, i, params) ==
    IF i > Len(routeParts) THEN [kind |-> "match", params |-> params]
    ELSE IF routeParts[i][1] = ":"
         THEN LET value == DecodeURIComponent(urlParts[i])
              IN  IF value = URI_ERROR
                  THEN [kind |-> "throw", params |-> {}]
                  ELSE MatchParts(routeParts, urlParts, i + 1,
                                  PutParam(params, Tail(routeParts[i]), value))
         ELSE IF routeParts[i] # urlParts[i]
              THEN [kind |-> "skip", params |-> {}]
              ELSE MatchParts(routeParts, urlParts, i + 1, params)

\* one pass of the loop over routes
RouteMatch(route, method, url) ==
    IF route.method # method THEN [kind |-> "skip", params |-> {}]
    ELSE IF Len(Parts(route.path)) # Len(Parts(url))
         THEN [kind |-> "skip", params |-> {}]
         ELSE MatchParts(Parts(route.path), Parts(url), 1, {})

NoMatch == [kind |-> "null", handler |-> "none", params |-> {}]
MatchThrows == [kind |-> "throw", handler |-> "none", params |-> {}]

RECURSIVE MatchRouteLastFrom(_, _, _, _, _)
\* matchRoute that keeps the last route that matches
MatchRouteLastFrom(table, k, method, url, found) ==
    IF k > Len(table) THEN found
    ELSE LET m == RouteMatch(table[k], method, url)
         IN  CASE m.kind = "throw" -> MatchThrows
               [] m.kind = "match" ->
                    MatchRouteLastFrom(table, k + 1, method, url,
                        [kind |-> "match", handler |-> table[k].handler,
                         params |-> m.params])
               [] m.kind = "skip" ->
                    MatchRouteLastFrom(table, k + 1, method, url, found)

MatchRouteLast(table, method, url) ==
    MatchRouteLastFrom(table, 1, method, url, NoMatch)

RECURSIVE MatchRouteFrom(_, _, _, _)
\* the loop over routes from position k
MatchRouteFrom(table, k, method, url) ==
    IF k > Len(table) THEN NoMatch
    ELSE LET m == RouteMatch(table[k], method, url)
         IN  CASE m.kind = "throw" -> MatchThrows
               [] m.kind = "match" ->
                    [kind |-> "match", handler |-> table[k].handler,
                     params |-> m.params]
               [] m.kind = "skip" -> MatchRouteFrom(table, k + 1, method, url)

\* matchRoute(method, url) over the table
MatchRoute(table, method, url) == MatchRouteFrom(table, 1, method, url)

ADDRESS_KEY == <<"a", "d", "d", "r", "e", "s", "s">>

\* params[name], undefined when the key is missing
ParamValue(params, name) ==
    IF \E p \in params : p[1] = name
    THEN (CHOOSE p \in params : p[1] = name)[2]
    ELSE UNDEF

(***************************************************************************)
(* State.                                                                  *)
(***************************************************************************)
VARIABLES
    forward_address,  \* env.forward_address
    rows,             \* table Email, in insertion order
    now,              \* CURRENT_TIMESTAMP of the storage
    events,           \* number of mail events delivered so far
    pc,               \* position of the email handler
    rawSize,          \* message.rawSize
    stream,           \* chunk lengths message.raw still delivers
    bytesRead,        \* bytesRead of streamToArrayBuffer
    parsedEmail,      \* result of parser.parse
    bound,            \* arguments handed to bind
    binds,            \* number of bind calls of this event
    inserts,          \* number of INSERT statements run for this event
    failed,           \* stages of this event that threw
    pending,          \* exception pending while finally runs
    list,             \* list of the finally block
    idx,              \* position of the for loop in list
    forwardCalls,     \* message.forward calls of this event, in order
    result,           \* settlement of the promise returned by email()
    http,             \* the request served by the last step and its response,
                      \* until the response is sent
    routing,          \* the last call of matchRoute and what it returned
    fetched,          \* what fetch() made of the last request
    parsed            \* the text handed to the cursor parser and what it returned

mailVars == <<events, pc, rawSize, stream, bytesRead, parsedEmail, bound, binds,
              inserts, failed, pending, list, idx, forwardCalls, result>>
routerVars == <<routing, fetched>>
vars == <<forward_address, rows, now, mailVars, http, routerVars, parsed>>

NoHttp ==
    [ served |-> FALSE, address |-> NULL, limit |-> NULL, parser |-> NULL,
      maxResults |-> NaN, storage |-> "none",
      status |-> 0, success |-> FALSE, error |-> "", data |-> <<>> ]

NoRouting == [called |-> FALSE, method |-> NULL, url |-> NULL, result |-> NoMatch]

NoFetch ==
    [ outcome |-> "none", handler |-> "none", status |-> 0, apiCalls |-> 0,
      body |-> [none |-> TRUE] ]

NoParse == [called |-> FALSE, text |-> NULL, code |-> NULL]

Init ==
    /\ forward_address \in ForwardSettings
    /\ rows = <<>>
    /\ now = 0
    /\ events = 0
    /\ pc = "idle"
    /\ rawSize = 0
    /\ stream = <<>>
    /\ bytesRead = 0
    /\ parsedEmail = NoEmail
    /\ bound = NoBind
    /\ binds = 0
    /\ inserts = 0
    /\ failed = {}
    /\ pending = "none"
    /\ list = <<>>
    /\ idx = 0
    /\ forwardCalls = <<>>
    /\ result = "none"
    /\ http = NoHttp
    /\ routing = NoRouting
    /\ fetched = NoFetch
    /\ parsed = NoParse

(***************************************************************************)
(* The finally block up to its first await: split the setting and call     *)
(* message.forward on the first piece.                                     *)
(***************************************************************************)
EnterFinally ==
    /\ list' = ForwardList(forward_address)
    /\ IF Len(list') = 0
       THEN /\ idx' = 0
            /\ forwardCalls' = <<>>
            /\ pc' = "done"
            /\ result' = IF pending' = "none" THEN "resolved" ELSE "rejected"
       ELSE /\ idx' = 1
            /\ forwardCalls' = <<[address |-> list'[1], outcome |-> "pending"]>>
            /\ pc' = "forwarding"
            /\ result' = "none"

\* control leaves the try block after stage with outcome
Leave(stage, outcome) ==
    /\ failed' = IF outcome = "fail" THEN failed \cup {stage} ELSE failed
    /\ pending' = IF outcome = "fail" THEN CatchClause(stage) ELSE "none"
    /\ LET target == AfterStage(stage, outcome)
       IN  CASE target = "finally" -> EnterFinally
             [] target = "done" ->
                    /\ pc' = "done"
                    /\ result' = IF pending' = "none" THEN "resolved" ELSE "rejected"
                    /\ UNCHANGED <<list, idx, forwardCalls>>
             [] OTHER ->
                    /\ pc' = target
                    /\ UNCHANGED <<list, idx, forwardCalls, result>>

(***************************************************************************)
(* email(message, env, ctx): one action per await.                         *)
(***************************************************************************)
\* the runtime delivers a mail event; the handler runs up to the first
\* reader.read().  One invocation is in flight at a time: invocations share
\* nothing but the table, which each writes in one statement.
MailEvent ==
    /\ pc \in {"idle", "done"}
    /\ events < MaxEvents
    /\ events' = events + 1
    /\ \E size \in 0..MaxChunks, chunks \in 0..MaxChunks :
          /\ rawSize' = size
          /\ stream' = [i \in 1..chunks |-> 1]
    /\ bytesRead' = 0
    /\ parsedEmail' = NoEmail
    /\ bound' = NoBind
    /\ binds' = 0
    /\ inserts' = 0
    /\ failed' = {}
    /\ pending' = "none"
    /\ list' = <<>>
    /\ idx' = 0
    /\ forwardCalls' = <<>>
    /\ result' = "none"
    /\ pc' = "reading"
    /\ UNCHANGED <<forward_address, rows, now>>
    /\ http' = NoHttp
    /\ routing' = NoRouting
    /\ fetched' = NoFetch
    /\ UNCHANGED parsed

\* ReadChunk with a reader that delivers the same chunk again
ReadChunkAgain ==
    /\ pc = "reading"
    /\ Len(stream) > 0
    /\ stream' = stream
    /\ IF bytesRead + Head(stream) > rawSize
       THEN /\ bytesRead' = bytesRead
            /\ Leave("read", "fail")
       ELSE /\ bytesRead' = bytesRead + Head(stream)
            /\ UNCHANGED <<pc, failed, pending, list, idx, forwardCalls, result>>
    /\ UNCHANGED <<forward_address, rows, now, events, rawSize, parsedEmail,
                   bound, binds, inserts>>
    /\ http' = NoHttp
    /\ routing' = NoRouting
    /\ fetched' = NoFetch
    /\ UNCHANGED parsed

\* reader.read() resolves with a chunk; result.set throws a RangeError when
\* the chunk does not fit into the rawSize bytes
ReadChunk ==
    /\ pc = "reading"
    /\ Len(stream) > 0
    /\ stream' = Tail(stream)
    /\ IF bytesRead + Head(stream) > rawSize
       THEN /\ bytesRead' = bytesRead
            /\ Leave("read", "fail")
       ELSE /\ bytesRead' = bytesRead + Head(stream)
            /\ UNCHANGED <<pc, failed, pending, list, idx, forwardCalls, result>>
    /\ UNCHANGED <<forward_address, rows, now, events, rawSize, parsedEmail,
                   bound, binds, inserts>>
    /\ http' = NoHttp
    /\ routing' = NoRouting
    /\ fetched' = NoFetch
    /\ UNCHANGED parsed

\* reader.read() resolves with done, or rejects
ReadEnd ==
    /\ pc = "reading"
    /\ \E outcome \in {"ok", "fail"} :
          /\ outcome = "ok" => Len(stream) = 0
          /\ Leave("read", outcome)
    /\ UNCHANGED <<forward_address, rows, now, events, rawSize, stream, bytesRead,
                   parsedEmail, bound, binds, inserts>>
    /\ http' = NoHttp
    /\ routing' = NoRouting
    /\ fetched' = NoFetch
    /\ UNCHANGED parsed

\* parser.parse settles; on success the arguments of the INSERT are
\* evaluated and bound and the statement is run
ParseReturn ==
    /\ pc = "parsing"
    /\ \E outcome \in {"ok", "fail"}, m \in ParsedEmails :
          /\ outcome = "fail" => m = NoEmail
          /\ parsedEmail' = m
          /\ IF AfterStage("parse", outcome) = "inserting"
             THEN IF BindThrows(m)
                  THEN /\ bound' = NoBind
                       /\ binds' = binds
                       /\ inserts' = inserts
                       /\ Leave("bind", "fail")
                  ELSE /\ bound' = BindValues(m)
                       /\ binds' = binds + 1
                       /\ IF StorageRejects(bound')
                          THEN /\ inserts' = inserts
                               /\ Leave("bind", "fail")
                          ELSE /\ inserts' = inserts + 1
                               /\ pc' = "inserting"
                               /\ failed' = IF outcome = "fail"
                                            THEN failed \cup {"parse"} ELSE failed
                               /\ UNCHANGED <<pending, list, idx, forwardCalls, result>>
             ELSE /\ UNCHANGED <<bound, binds, inserts>>
                  /\ Leave("parse", outcome)
    /\ UNCHANGED <<forward_address, rows, now, events, rawSize, stream, bytesRead>>
    /\ http' = NoHttp
    /\ routing' = NoRouting
    /\ fetched' = NoFetch
    /\ UNCHANGED parsed

\* a row of table Email: id and createdAt are assigned by the storage
NewRow(b, id, t) ==
    [ id |-> id, subject |-> b.subject, from |-> b.from, to |-> b.to,
      html |-> b.html, text |-> b.text, createdAt |-> t ]

\* InsertReturn with an INSERT that replaces the rows of the table
InsertReturnOverwrite ==
    /\ pc = "inserting"
    /\ \E outcome \in {"ok", "fail"} :
          /\ rows' = IF outcome = "ok"
                     THEN <<NewRow(bound, Len(rows) + 1, now)>>
                     ELSE rows
          /\ Leave("insert", outcome)
    /\ UNCHANGED <<forward_address, now, events, rawSize, stream, bytesRead,
                   parsedEmail, bound, binds, inserts>>
    /\ http' = NoHttp
    /\ routing' = NoRouting
    /\ fetched' = NoFetch
    /\ UNCHANGED parsed

\* run() of the INSERT settles
InsertReturn ==
    /\ pc = "inserting"
    /\ \E outcome \in {"ok", "fail"} :
          /\ rows' = IF outcome = "ok"
                     THEN Append(rows, NewRow(bound, Len(rows) + 1, now))
                     ELSE rows
          /\ Leave("insert", outcome)
    /\ UNCHANGED <<forward_address, now, events, rawSize, stream, bytesRead,
                   parsedEmail, bound, binds, inserts>>
    /\ http' = NoHttp
    /\ routing' = NoRouting
    /\ fetched' = NoFetch
    /\ UNCHANGED parsed

\* message.forward(address) settles; a rejection leaves the for loop and the
\* finally block, otherwise the loop calls forward on the next piece
ForwardReturn ==
    /\ pc = "forwarding"
    /\ \E outcome \in {"ok", "fail"} :
          /\ forwardCalls' = IF outcome = "ok" /\ idx < Len(list)
                THEN Append([forwardCalls EXCEPT ![idx].outcome = outcome],
                            [address |-> list[idx + 1], outcome |-> "pending"])
                ELSE [forwardCalls EXCEPT ![idx].outcome = outcome]
          /\ IF outcome = "fail"
             THEN /\ pending' = "forward"
                  /\ result' = "rejected"
                  /\ pc' = "done"
                  /\ idx' = idx
             ELSE IF idx < Len(list)
                  THEN /\ idx' = idx + 1
                       /\ UNCHANGED <<pc, pending, result>>
                  ELSE /\ pc' = "done"
                       /\ result' = IF pending = "none" THEN "resolved" ELSE "rejected"
                       /\ UNCHANGED <<idx, pending>>
    /\ UNCHANGED <<forward_address, rows, now, events, rawSize, stream, bytesRead,
                   parsedEmail, bound, binds, inserts, failed, list>>
    /\ http' = NoHttp
    /\ routing' = NoRouting
    /\ fetched' = NoFetch
    /\ UNCHANGED parsed

(***************************************************************************)
(* GET /email/:address: the handler binds address and maxResults to the    *)
(* select, awaits it and answers.  The storage may throw, report           *)
(* success = false, or deliver the rows.  Requests are served one at a     *)
(* time.                                                                   *)
(***************************************************************************)
\* the handler of GET /email/:address with params.address = address and the
\* query parameters limit and parser
GetEmailWith(address, limit, parserName) ==
    \E outcome \in {"ok", "unsuccessful", "throw"} :
          LET maxResults == MaxResults(limit)
              request == [served |-> TRUE, address |-> address, limit |-> limit,
                          parser |-> parserName, maxResults |-> maxResults,
                          storage |-> outcome]
              QueryError == [status |-> 500, success |-> FALSE,
                             error |-> "Query error", data |-> <<>>]
          IN  CASE outcome = "ok" ->
                     \E results \in SelectResults(rows, address, maxResults) :
                        IF HasParser(parserName)
                        THEN IF \E i \in 1..Len(results) : ParserThrows(results[i])
                             THEN http' = request @@ QueryError
                             ELSE http' = request @@
                                    [status |-> 200, success |-> TRUE, error |-> "",
                                     data |-> [i \in 1..Len(results) |->
                                                 WithParsedCode(results[i])]]
                        ELSE http' = request @@
                               [status |-> 200, success |-> TRUE, error |-> "",
                                data |-> results]
                [] outcome = "unsuccessful" ->
                     http' = request @@ [status |-> 500, success |-> FALSE,
                                         error |-> "Failed to retrieve emails",
                                         data |-> <<>>]
                [] outcome = "throw" ->
                     http' = request @@ QueryError

\* the handler of GET /email/:address with params.address = address
GetEmailFor(address) ==
    \E limit \in LimitInputs, parserName \in ParserInputs :
       GetEmailWith(address, limit, parserName)

GetEmail ==
    /\ ~http.served
    /\ \E address \in AddressInputs : GetEmailFor(address)
    /\ routing' = NoRouting
    /\ fetched' = NoFetch
    /\ UNCHANGED parsed
    /\ UNCHANGED <<forward_address, rows, now, mailVars>>

\* the response is sent to the client
Respond ==
    /\ http.served
    /\ http' = NoHttp
    /\ routing' = NoRouting
    /\ fetched' = NoFetch
    /\ UNCHANGED parsed
    /\ UNCHANGED <<forward_address, rows, now, mailVars>>

(***************************************************************************)
(* fetch(request, env, ctx) and the handlers of the routes.                *)
(***************************************************************************)
Methods == {GET, POST}

\* url.pathname of the requests
Pathnames ==
    { <<"/">>,
      <<"/", "/">>,
      <<"/", "h", "e", "l", "p">>,
      <<"/", "h", "e", "l", "p", "/">>,
      <<"/", "H", "e", "l", "p">>,
      <<"/", "u", "i">>,
      <<"/", "u", "i", "/">>,
      <<"/", "e", "m", "a", "i", "l", "/", "c", "r", "e", "a", "t", "e">>,
      <<"/", "e", "m", "a", "i", "l", "/", "c", "r", "e", "a", "t", "e", "/">>,
      <<"/", "e", "m", "a", "i", "l", "/", "/", "c", "r", "e", "a", "t", "e">>,
      <<"/", "e", "m", "a", "i", "l">>,
      <<"/", "n", "o", "p", "e">>,
      <<"/", "e", "m", "a", "i", "l", "/", "a", "/", "b">>,
      <<"/", "e", "m", "a", "i", "l", "/", "U", "s", "e", "r", "@", "E", "x", "a", "m", "p", "l", "e", ".", "c", "o", "m">>,
      <<"/", "e", "m", "a", "i", "l", "/", "u", "s", "e", "r", "%", "4", "0", "e", "x", "a", "m", "p", "l", "e", ".", "c", "o", "m">>,
      <<"/", "e", "m", "a", "i", "l", "/", "%">>,
      <<"/", "e", "m", "a", "i", "l", "/", "%", "E", "0", "%", "A", "4", "%", "A">>,
      <<"/", "e", "m", "a", "i", "l", "/", "c", "a", "f", "%", "C", "3", "%", "A", "9">>,
      <<"/", "e", "m", "a", "i", "l", "/", "c", "r", "e", "a", "t", "e", "%">>,
      <<"/", "%", "/", "c", "r", "e", "a", "t", "e">> }

\* the urls matchRoute is called with: the pathnames, and urls without the
\* leading slash
MatchUrls ==
    Pathnames \cup
    { <<>>,
      <<"h", "e", "l", "p">>,
      <<"h", "e", "l", "p", "/">>,
      <<"u", "i">>,
      <<"u", "i", "/">>,
      <<"e", "m", "a", "i", "l", "/", "c", "r", "e", "a", "t", "e">>,
      <<"e", "m", "a", "i", "l", "/", "c", "r", "e", "a", "t", "e", "/">>,
      <<"e", "m", "a", "i", "l", "/", "u", "s", "e", "r", "%", "4", "0", "e", "x", "a", "m", "p", "l", "e", ".", "c", "o", "m">> }

\* env.EMAIL_DOMAIN
EMAIL_DOMAIN == <<"e", "x", "a", "m", "p", "l", "e", ".", "c", "o", "m">>

\* what the two Math.random().toString(36).substring(2, 15) give together
LocalParts == { <<"k", "9", "x", "2">>, <<"a", "b">> }

EMAIL_PREFIX == <<"/", "e", "m", "a", "i", "l", "/">>

\* the handler of GET /email/create: the rule is created through the
\* Cloudflare API, which reports success, reports no success, or fails
CreateEmail ==
    \E local \in LocalParts, api \in {"success", "unsuccessful", "throw"} :
       LET randomEmail == local \o <<"@">> \o EMAIL_DOMAIN
       IN  fetched' =
             [ outcome |-> "response", handler |-> "create", apiCalls |-> 1,
               status |-> IF api = "success" THEN 200 ELSE 500,
               body |->
                 CASE api = "success" ->
                        [success |-> TRUE,
                         data |-> [fetch_endpoint |-> EMAIL_PREFIX \o randomEmail,
                                   address |-> randomEmail]]
                   [] api = "unsuccessful" ->
                        [success |-> FALSE,
                         error |-> "Failed to create email rule via Cloudflare API"]
                   [] api = "throw" ->
                        [success |-> FALSE,
                         error |-> "Error communicating with Cloudflare API"] ]

\* the handlers of GET /help and GET /ui
StaticPage(handler) ==
    fetched' = [ outcome |-> "response", handler |-> handler, apiCalls |-> 0,
                 status |-> 200, body |-> [html |-> handler] ]

\* the handler of GET /
RedirectToHelp ==
    fetched' = [ outcome |-> "response", handler |-> "index", apiCalls |-> 0,
                 status |-> 302, body |-> [location |-> PATH_HELP] ]

NotFound ==
    [ outcome |-> "response", handler |-> "none", apiCalls |-> 0, status |-> 404,
      body |-> [error |-> "Invalid path. Use /email/create or /email/:address"] ]

\* fetch: matchRoute on the method and the pathname, then the handler of the
\* match or the 404 response; an exception of matchRoute leaves fetch
Fetch ==
    /\ \E method \in Methods, pathname \in Pathnames :
          LET match == MatchRoute(Routes, method, pathname)
          IN  /\ routing' = [called |-> TRUE, method |-> method, url |-> pathname,
                             result |-> match]
              /\ CASE match.kind = "throw" ->
                        /\ fetched' = [NoFetch EXCEPT !.outcome = "threw"]
                        /\ http' = NoHttp
                   [] match.kind = "null" ->
                        /\ fetched' = NotFound
                        /\ http' = NoHttp
                   [] match.kind = "match" /\ match.handler = "create" ->
                        /\ CreateEmail
                        /\ http' = NoHttp
                   [] match.kind = "match" /\ match.handler = "address" ->
                        /\ GetEmailFor(ParamValue(match.params, ADDRESS_KEY))
                        /\ fetched' =
                             [ outcome |-> "response", handler |-> "address",
                               apiCalls |-> 0, status |-> http'.status,
                               body |-> [success |-> http'.success,
                                         error |-> http'.error,
                                         data |-> http'.data] ]
                   [] match.kind = "match" /\ match.handler \in {"help", "ui"} ->
                        /\ StaticPage(match.handler)
                        /\ http' = NoHttp
                   [] match.kind = "match" /\ match.handler = "index" ->
                        /\ RedirectToHelp
                        /\ http' = NoHttp
    /\ UNCHANGED <<forward_address, rows, now, mailVars, parsed>>

\* matchRoute(method, url) called on its own
MatchRouteCall ==
    /\ \E method \in Methods, url \in MatchUrls :
          routing' = [called |-> TRUE, method |-> method, url |-> url,
                      result |-> MatchRoute(Routes, method, url)]
    /\ fetched' = NoFetch
    /\ UNCHANGED parsed
    /\ http' = NoHttp
    /\ UNCHANGED <<forward_address, rows, now, mailVars>>

(***************************************************************************)
(* The cursor parser called on a text.                                     *)
(***************************************************************************)
\* the pieces of the texts: the phrase in two spellings, digits in runs of
\* six, seven and two, a word, and white space
TextPieces ==
    { <<"O", "n", "e", "-", "T", "i", "m", "e", " ", "C", "o", "d", "e", " ", "i", "s">>,
      <<"o", "n", "e", "-", "t", "i", "m", "e", " ", "c", "o", "d", "e", " ", "i", "s", ":">>,
      <<"1", "2", "3", "4", "5", "6">>,
      <<"1", "2", "3", "4", "5", "6", "7">>,
      <<"1", "2">>,
      <<"c", "o", "d", "e">>,
      <<" ">>,
      <<"\n", "\t">> }

RECURSIVE TextsOf(_)
\* the texts of at most n pieces
TextsOf(n) ==
    IF n = 0 THEN {<<>>}
    ELSE TextsOf(n - 1) \cup {piece \o text : piece \in TextPieces, text \in TextsOf(n - 1)}

ParserTexts == TextsOf(MaxPieces)

\* the parser is about to be called on a text
InitParse ==
    /\ forward_address = <<>>
    /\ rows = <<>>
    /\ now = 0
    /\ events = 0
    /\ pc = "idle"
    /\ rawSize = 0
    /\ stream = <<>>
    /\ bytesRead = 0
    /\ parsedEmail = NoEmail
    /\ bound = NoBind
    /\ binds = 0
    /\ inserts = 0
    /\ failed = {}
    /\ pending = "none"
    /\ list = <<>>
    /\ idx = 0
    /\ forwardCalls = <<>>
    /\ result = "none"
    /\ http = NoHttp
    /\ routing = NoRouting
    /\ fetched = NoFetch
    /\ parsed \in {[called |-> FALSE, text |-> text, code |-> NULL] : text \in ParserTexts}

\* parse(text) returns
CursorCall ==
    /\ ~parsed.called
    /\ parsed' = [called |-> TRUE, text |-> parsed.text, code |-> CursorParse(parsed.text)]
    /\ UNCHANGED <<forward_address, rows, now, mailVars, http, routerVars>>

NextCursor == CursorCall

\* the cursor parser alone
SpecCursor == InitParse /\ [][NextCursor]_vars

\* time passes at the storage
Tick ==
    /\ now < MaxTime
    /\ now' = now + 1
    /\ UNCHANGED <<forward_address, rows, mailVars>>
    /\ http' = NoHttp
    /\ routing' = NoRouting
    /\ fetched' = NoFetch
    /\ UNCHANGED parsed

Next ==
    \/ MailEvent
    \/ ReadChunk
    \/ ReadEnd
    \/ ParseReturn
    \/ InsertReturn
    \/ ForwardReturn
    \/ GetEmail
    \/ Respond
    \/ Tick

Spec == Init /\ [][Next]_vars

NextMail ==
    \/ MailEvent
    \/ ReadChunk
    \/ ReadEnd
    \/ ParseReturn
    \/ InsertReturn
    \/ ForwardReturn
    \/ Tick

\* the email handler alone
SpecMail == Init /\ [][NextMail]_vars

\* a call the handler awaits settles
MailStep ==
    \/ ReadChunk
    \/ ReadEnd
    \/ ParseReturn
    \/ InsertReturn
    \/ ForwardReturn

\* the email handler alone, every call it awaits settling in the end
SpecMailLive == Init /\ [][NextMail]_vars /\ WF_vars(MailStep)

\* a deployment with no forward address set
InitStore == Init /\ forward_address = <<>>

\* GET /email/:address without the limit and parser parameters
GetEmailPlain ==
    /\ ~http.served
    /\ \E address \in AddressInputs : GetEmailWith(address, NULL, NULL)
    /\ routing' = NoRouting
    /\ fetched' = NoFetch
    /\ UNCHANGED parsed
    /\ UNCHANGED <<forward_address, rows, now, mailVars>>

NextStore ==
    \/ MailEvent
    \/ ReadChunk
    \/ ReadEnd
    \/ ParseReturn
    \/ InsertReturn
    \/ ForwardReturn
    \/ GetEmailPlain
    \/ Respond
    \/ Tick

\* the email handler and the plain queries of such a deployment
SpecStore == InitStore /\ [][NextStore]_vars

NextRouter ==
    \/ Fetch
    \/ MatchRouteCall

\* the fetch handler and the router alone
SpecRouter == Init /\ [][NextRouter]_vars

(***************************************************************************)
(* Properties of the email handler.                                        *)
(***************************************************************************)
\* the forward step ran: list is the split setting, forward was called on
\* its pieces in order, and a piece was left out only after a call that failed
ForwardStepRan ==
    /\ list = ForwardList(forward_address)
    /\ Len(forwardCalls) >= 1
    /\ Len(forwardCalls) <= Len(list)
    /\ \A i \in 1..Len(forwardCalls) : forwardCalls[i].address = list[i]
    /\ \A i \in 1..(Len(forwardCalls) - 1) : forwardCalls[i].outcome = "ok"
    /\ Len(forwardCalls) < Len(list) => forwardCalls[Len(forwardCalls)].outcome = "fail"

\* C1: when the handler is done, every address of the list got exactly one
\* forward attempt, whichever forward calls failed
C1_EveryAddressForwardedOnce ==
    pc = "done" =>
        /\ Len(forwardCalls) = Len(list)
        /\ \A i \in 1..Len(list) : forwardCalls[i].address = list[i]

\* C2: the promise returned by the email handler is never rejected
C2_HandlerNeverRejects == result # "rejected"

\* String.prototype.trim for the blank character
RECURSIVE Trim(_)
Trim(s) ==
    IF Len(s) > 0 /\ s[1] = " " THEN Trim(Tail(s))
    ELSE IF Len(s) > 0 /\ s[Len(s)] = " " THEN Trim(SubSeq(s, 1, Len(s) - 1))
    ELSE s

RECURSIVE TrimAll(_)
TrimAll(q) == IF Len(q) = 0 THEN <<>> ELSE <<Trim(Head(q))>> \o TrimAll(Tail(q))

NonEmpty(s) == Len(s) > 0

\* the pieces of the setting, trimmed, without the empty ones
TrimmedPieces(setting) == SelectSeq(TrimAll(SplitOn(setting, ";")), NonEmpty)

\* C3: when no forward call failed, forward was called exactly once for each
\* trimmed non-empty piece of the setting, in order, and never with an empty
\* or blank-padded address
C3_ForwardsTrimmedNonEmptyPieces ==
    /\ \A i \in 1..Len(forwardCalls) :
          /\ forwardCalls[i].address # <<>>
          /\ Trim(forwardCalls[i].address) = forwardCalls[i].address
    /\ (pc = "done" /\ result = "resolved") =>
          [i \in 1..Len(forwardCalls) |-> forwardCalls[i].address]
              = TrimmedPieces(forward_address)

\* C4: with the empty setting the handler makes no forward call and
\* completes normally
C4_EmptySettingForwardsToNobody ==
    forward_address = <<>> =>
        /\ Len(forwardCalls) = 0
        /\ pc = "done" => result = "resolved"

\* C5: an INSERT that failed is not what the handler rejects with, and the
\* forward step has run when the handler is done
C5_InsertFailureDoesNotBlockForwarding ==
    "insert" \in failed =>
        /\ pending # "insert"
        /\ pc \in {"forwarding", "done"}
        /\ pc = "done" => ForwardStepRan
        /\ result = "rejected" => forwardCalls[Len(forwardCalls)].outcome = "fail"

C5_Witness ==
    /\ pc = "done"
    /\ "insert" \in failed
    /\ Len(forwardCalls) = 3
    /\ result = "resolved"

\* C6: when reading or parsing failed, no INSERT is bound or run for the
\* event and no row is written, and the forward step has run when the
\* handler is done
C6_ParseFailureSkipsInsertNotForward ==
    (failed \cap {"read", "parse"}) # {} =>
        /\ binds = 0
        /\ inserts = 0
        /\ pc \in {"forwarding", "done"}
        /\ pc = "done" => ForwardStepRan

C6_Witness ==
    /\ pc = "done"
    /\ "parse" \in failed
    /\ Len(forwardCalls) = 2
    /\ forwardCalls[2].outcome = "ok"

\* C7: every value handed to bind is a defined scalar or null, never
\* undefined
C7_BoundValuesDefined ==
    binds > 0 => \A f \in BindFields : bound[f] # UNDEF

(***************************************************************************)
(* Properties of GET /email/:address.                                      *)
(***************************************************************************)
\* C8: the limit bound to the select is an integer in 1..50: 10 for a
\* missing, empty or non-integer parameter, 1 for "0", 50 for "999", 7 for "7"
C8_LimitClamped ==
    http.served =>
        /\ ~http.maxResults.nan
        /\ http.maxResults.n \in 1..50
        /\ http.limit \in {NULL, <<>>, <<"a", "b", "c">>} => http.maxResults.n = 10
        /\ http.limit = <<"0">> => http.maxResults.n = 1
        /\ http.limit = <<"9", "9", "9">> => http.maxResults.n = 50
        /\ http.limit = <<"7">> => http.maxResults.n = 7

\* C9: when the bound limit covers the table, a successful lookup returns
\* every row whose to field equals the address up to letter case
C9_CaseInsensitiveLookup ==
    (http.served /\ http.success /\ ~http.maxResults.nan
        /\ http.maxResults.n >= Len(rows)) =>
        \A i \in 1..Len(rows) :
            Fold(rows[i].to) = Fold(http.address) =>
                \E j \in 1..Len(http.data) :
                    /\ http.data[j].to = rows[i].to
                    /\ http.data[j].subject = rows[i].subject
                    /\ http.data[j].createdAt = rows[i].createdAt

\* the limit of the query service: 10 when the parameter does not parse,
\* else the parsed value clamped into 1..50
ClampedLimit(limit) ==
    LET v == IF limit = NULL THEN NaN ELSE ParseInt(limit)
    IN  IF v.nan THEN 10
        ELSE IF v.n < 1 THEN 1
        ELSE IF v.n > 50 THEN 50
        ELSE v.n

\* C10: a successful lookup returns rows ordered by createdAt descending and
\* at most the clamped limit of them
C10_NewestFirstAtMostLimit ==
    (http.served /\ http.success) =>
        /\ \A i, j \in 1..Len(http.data) :
              i < j => http.data[i].createdAt >= http.data[j].createdAt
        /\ Len(http.data) <= ClampedLimit(http.limit)
        /\ Len(http.data) <= 50

(***************************************************************************)
(* The request handler over a table that earlier deployments have filled:  *)
(* a fresh isolate starts with no handler running and finds the rows of    *)
(* table Email as they are.  The schema lets html and text be NULL.        *)
(***************************************************************************)
\* "<p>111111</p>"
HTML_CODE == <<"<", "p", ">", "1", "1", "1", "1", "1", "1", "<", "/", "p", ">">>
\* "hello"
TEXT_NOCODE == <<"h", "e", "l", "l", "o">>

\* rows of table Email: with a code in text and another in html, with a code
\* in text only, with a code in html only, and without text
StoredMessages ==
    { [subject |-> SUBJ, from |-> SENDER, to |-> USER_MIXED, html |-> HTML_CODE,
       text |-> TEXT_BODY],
      [subject |-> SUBJ, from |-> SENDER, to |-> USER_LOWER, html |-> HTML_BODY,
       text |-> TEXT_BODY],
      [subject |-> NONE, from |-> SENDER, to |-> USER_MIXED, html |-> HTML_CODE,
       text |-> TEXT_NOCODE],
      [subject |-> SUBJ, from |-> SENDER, to |-> USER_MIXED, html |-> HTML_BODY,
       text |-> NULL] }

\* the tables of at most MaxRows rows, createdAt not decreasing with the id
StoredTables ==
    UNION { { [i \in 1..n |-> NewRow(ms[i], i, ts[i])] :
                ms \in [1..n -> StoredMessages],
                ts \in { f \in [1..n -> 0..MaxTime] :
                           \A i, j \in 1..n : i < j => f[i] <= f[j] } } :
            n \in 0..MaxRows }

InitQuery ==
    /\ forward_address \in ForwardSettings
    /\ rows \in StoredTables
    /\ now = MaxTime
    /\ events = 0
    /\ pc = "idle"
    /\ rawSize = 0
    /\ stream = <<>>
    /\ bytesRead = 0
    /\ parsedEmail = NoEmail
    /\ bound = NoBind
    /\ binds = 0
    /\ inserts = 0
    /\ failed = {}
    /\ pending = "none"
    /\ list = <<>>
    /\ idx = 0
    /\ forwardCalls = <<>>
    /\ result = "none"
    /\ http = NoHttp
    /\ routing = NoRouting
    /\ fetched = NoFetch
    /\ parsed = NoParse

NextQuery ==
    \/ GetEmail
    \/ Respond

SpecQuery == InitQuery /\ [][NextQuery]_vars

\* the parser name is one the registry holds
Registered(parserName) == parserName # NULL /\ parserName \in ParserNames

\* the row without its parsed_code
WithoutCode(row) == [f \in DOMAIN row \ {"parsed_code"} |-> row[f]]

C12_NoCodeIsNullNotError ==
    (http.served /\ http.storage = "ok" /\ Registered(http.parser)) =>
        /\ http.success
        /\ http.status = 200
        /\ [i \in 1..Len(http.data) |-> WithoutCode(http.data[i])]
              \in SelectResults(rows, http.address, http.maxResults)
        /\ \A i \in 1..Len(http.data) :
              http.data[i].parsed_code =
                  IF http.data[i].text = NULL THEN NULL
                  ELSE CursorParse(http.data[i].text)

\* C13: a select that throws or reports success = false gives the error
\* envelope with status 500, a select that succeeds gives the success
\* envelope with the rows
C13_SelectFailureIsErrorEnvelope ==
    http.served =>
        /\ http.storage \in {"throw", "unsuccessful"} =>
              /\ http.status = 500
              /\ ~http.success
              /\ http.error # ""
        /\ http.storage = "ok" =>
              /\ http.status = 200
              /\ http.success
              /\ http.error = ""

(***************************************************************************)
(* The router.                                                             *)
(***************************************************************************)
\* the non-empty segments of a pattern or a path
Segments(path) == SelectSeq(SplitOn(path, "/"), NonEmpty)

IsParam(segment) == segment[1] = ":"

\* route matches the request structurally: equal methods, equal numbers of
\* segments, and every literal segment of the pattern equal to the segment of
\* the path
StructuralMatch(route, method, url) ==
    /\ route.method = method
    /\ Len(Segments(route.path)) = Len(Segments(url))
    /\ \A i \in 1..Len(Segments(route.path)) :
          \/ IsParam(Segments(route.path)[i])
          \/ Segments(route.path)[i] = Segments(url)[i]

\* the mapping of the names of the pattern to the decoded segments of the path
DecodedParams(route, url) ==
    { <<Tail(Segments(route.path)[i]), DecodeURIComponent(Segments(url)[i])>> :
        i \in { j \in 1..Len(Segments(route.path)) :
                  IsParam(Segments(route.path)[j]) } }

\* C14: for every method and every path, malformed percent-encodings
\* included, matchRoute does not throw and fetch answers with the handler of
\* the matching route or with the 404 JSON body.
C14_RoutingNeverThrows ==
    /\ routing.called => routing.result.kind # "throw"
    /\ fetched.outcome # "threw"
    /\ fetched.outcome = "response" =>
          IF routing.result.kind = "match"
          THEN fetched.handler = routing.result.handler
          ELSE fetched = NotFound

\* C15: the table holds the routes in the order of their registration, and
\* matchRoute returns the first route of the table that matches
\* structurally: GET /email/create goes to the create handler and not to
\* the address handler.
C15_FirstRegisteredMatchWins ==
    /\ [k \in 1..Len(Routes) |-> Routes[k].path] =
          <<PATH_CREATE, PATH_ADDRESS, PATH_HELP, PATH_UI, PATH_INDEX>>
    /\ routing.called /\ routing.result.kind = "match" =>
          \E k \in 1..Len(Routes) :
             /\ StructuralMatch(Routes[k], routing.method, routing.url)
             /\ \A j \in 1..(k - 1) :
                   ~StructuralMatch(Routes[j], routing.method, routing.url)
             /\ routing.result.handler = Routes[k].handler
    /\ routing.called /\ routing.method = GET /\ routing.url = PATH_CREATE =>
          /\ routing.result.kind = "match"
          /\ routing.result.handler = "create"
          /\ routing.result.params = {}
    /\ fetched.outcome = "response" /\ routing.method = GET
          /\ routing.url = PATH_CREATE => fetched.handler = "create"

\* fetch has dispatched GET /email/create, which both /email/create and
\* /email/:address match structurally
C15_Witness ==
    /\ fetched.outcome = "response"
    /\ fetched.handler = "create"
    /\ routing.method = GET
    /\ routing.url = PATH_CREATE
    /\ StructuralMatch(Routes[2], routing.method, routing.url)

\* C16: a route matches the request exactly when it matches structurally,
\* and the params then map each name of the pattern to the decoded segment
\* of the path and hold nothing else.
C16_MatchesExactlyWhenStructural ==
    routing.called =>
       \A k \in 1..Len(Routes) :
          LET m == RouteMatch(Routes[k], routing.method, routing.url)
          IN  IF StructuralMatch(Routes[k], routing.method, routing.url)
              THEN /\ m.kind = "match"
                   /\ m.params = DecodedParams(Routes[k], routing.url)
              ELSE m.kind = "skip"

\* a pattern without :name segments
IsLiteral(path) == \A i \in 1..Len(Segments(path)) : ~IsParam(Segments(path)[i])

\* path without one leading and one trailing slash
Core(path) ==
    LET front == IF Len(path) > 0 /\ path[1] = "/" THEN Tail(path) ELSE path
    IN  IF Len(front) > 0 /\ front[Len(front)] = "/"
        THEN SubSeq(front, 1, Len(front) - 1)
        ELSE front

\* the pattern with and without a leading and a trailing slash
SlashVariants(path) ==
    { Core(path), <<"/">> \o Core(path), Core(path) \o <<"/">>,
      <<"/">> \o Core(path) \o <<"/">> }

\* C17: matchRoute with the method of a literal route and its pattern, with
\* or without a leading or trailing slash, returns the handler of that route
\* and empty params.
C17_LiteralRouteMatchesItself ==
    routing.called =>
       \A k \in 1..Len(Routes) :
          /\ IsLiteral(Routes[k].path)
          /\ routing.method = Routes[k].method
          /\ routing.url \in SlashVariants(Routes[k].path)
          => routing.result = [kind |-> "match", handler |-> Routes[k].handler,
                               params |-> {}]

\* matchRoute was called with help/ and with the empty url
C17_Witness ==
    /\ routing.called
    /\ routing.method = GET
    /\ \/ routing.url = <<"h", "e", "l", "p", "/">> /\ routing.result.handler = "help"
       \/ routing.url = <<>> /\ routing.result.handler = "index"

(***************************************************************************)
(* The record of a message.                                                *)
(***************************************************************************)
X_Y == <<"x", "@", "y", ".", "c", "o", "m">>

\* the envelope to and from of the event: absent, or x@y.com
EnvelopeHints == {UNDEF, X_Y}

\* the record of the parsed message m under the envelope hints: the hint,
\* else the parsed address, else "None"; "None" for no subject; null for no
\* body
Normalize(m, hintTo, hintFrom) ==
    [ subject |-> IF m.subject = UNDEF THEN NONE ELSE m.subject,
      from |-> IF hintFrom # UNDEF THEN hintFrom
               ELSE IF m.from # UNDEF THEN m.from ELSE NONE,
      to |-> IF hintTo # UNDEF THEN hintTo
             ELSE IF m.to # NOLIST /\ Len(m.to) > 0 THEN m.to[1] ELSE NONE,
      html |-> IF m.html = UNDEF THEN NULL ELSE m.html,
      text |-> IF m.text = UNDEF THEN NULL ELSE m.text ]

\* C18: the values bound to the INSERT are the record of the parsed message
\* under the envelope hints of the event, whatever the hints are; no
\* subject, no to, no from and the hint x@y.com for to give "None", x@y.com,
\* "None", null, null.
C18_BoundIsNormalizedRecord ==
    /\ Normalize(Email(UNDEF, UNDEF, <<>>, UNDEF, UNDEF), X_Y, UNDEF)
          = [subject |-> NONE, from |-> NONE, to |-> X_Y, html |-> NULL,
             text |-> NULL]
    /\ \A hintTo \in EnvelopeHints, hintFrom \in EnvelopeHints :
          binds > 0 => bound = Normalize(parsedEmail, hintTo, hintFrom)

(***************************************************************************)
(* The life of a row.                                                      *)
(***************************************************************************)
\* the stages before the forwarding
StoringStages == {"read", "parse", "bind", "insert"}

\* every step leaves the rows of the table as they are and adds at most one
RowsOnlyAppended ==
    /\ Len(rows') \in {Len(rows), Len(rows) + 1}
    /\ \A i \in 1..Len(rows) : rows'[i] = rows[i]

\* an event runs at most one INSERT, and an event none of whose storing
\* stages failed has added the row of its bound values; a query returns
\* rows of the table
OneRowPerEvent ==
    /\ inserts <= 1
    /\ Len(rows) <= events
    /\ pc \in {"forwarding", "done"} /\ events > 0 /\ failed \cap StoringStages = {}
          => /\ inserts = 1
             /\ Len(rows) > 0
             /\ Columns(rows[Len(rows)]) = bound @@ [createdAt |-> rows[Len(rows)].createdAt]
    /\ http.served /\ http.success =>
          \A i \in 1..Len(http.data) :
             \E j \in 1..Len(rows) : WithoutCode(http.data[i]) = Columns(rows[j])

\* C19: a mail event creates its row once, never twice, and no step of the
\* mail handler or of a request changes or removes a row of the table: a row
\* a query returned has the same values in every later query.
C19_RowCreatedOnceThenImmutable == []OneRowPerEvent /\ [][RowsOnlyAppended]_vars

\* two events have stored their rows and a query has returned both
C19_Witness ==
    /\ events = 2
    /\ Len(rows) = 2
    /\ http.served
    /\ http.success
    /\ Len(http.data) = 2

(***************************************************************************)
(* GET /email/create.                                                      *)
(***************************************************************************)
\* C20: GET /email/create calls no external service, stores nothing and has
\* no failure: it answers success with an address made of a random local
\* part, @ and the configured domain, the fetch_endpoint /email/ followed
\* by that address, and the mode catch_all_worker_rule.
C20_CreateIsPureGeneration ==
    fetched.outcome = "response" /\ fetched.handler = "create" =>
       /\ fetched.apiCalls = 0
       /\ rows = <<>>
       /\ fetched.status = 200
       /\ \E local \in LocalParts :
             fetched.body =
                [ success |-> TRUE,
                  data |-> [ fetch_endpoint |->
                                EMAIL_PREFIX \o local \o <<"@">> \o EMAIL_DOMAIN,
                             address |-> local \o <<"@">> \o EMAIL_DOMAIN,
                             mode |-> "catch_all_worker_rule" ] ]

(***************************************************************************)
(* The cursor parser.                                                      *)
(***************************************************************************)
\* text with its white space collapsed and trimmed
Cleaned(text) == TrimSpace(CollapseSpace(text))

\* the digits after the phrase, an optional colon and optional white space
\* at position i of s, empty when the phrase or the digits are not there
DigitsAfterPhraseAt(s, i) ==
    IF i + Len(PHRASE) - 1 <= Len(s)
       /\ \A k \in 1..Len(PHRASE) : FoldChar(s[i + k - 1]) = PHRASE[k]
    THEN LET afterColon == IF i + Len(PHRASE) <= Len(s) /\ s[i + Len(PHRASE)] = ":"
                           THEN i + Len(PHRASE) + 1 ELSE i + Len(PHRASE)
         IN  DigitRun(s, SkipSpace(s, afterColon))
    ELSE <<>>

\* a run of exactly six digits starts at position i of s: no digit before it
\* and none after it
ExactlySixAt(s, i) ==
    /\ i + 5 <= Len(s)
    /\ \A k \in i..(i + 5) : IsDigit(s[k])
    /\ i > 1 => ~IsDigit(s[i - 1])
    /\ i + 6 <= Len(s) => ~IsDigit(s[i + 6])

Least(S) == CHOOSE i \in S : \A j \in S : i <= j

\* the code of text: the digits after the first phrase, else the first run
\* of exactly six digits, else null
ExpectedCode(text) ==
    LET s == Cleaned(text)
        phraseAt == {i \in 1..Len(s) : DigitsAfterPhraseAt(s, i) # <<>>}
        sixAt == {i \in 1..Len(s) : ExactlySixAt(s, i)}
    IN  IF phraseAt # {} THEN DigitsAfterPhraseAt(s, Least(phraseAt))
        ELSE IF sixAt # {} THEN SubSeq(s, Least(sixAt), Least(sixAt) + 5)
        ELSE NULL

\* C21: the cursor parser returns the digits after the phrase "one-time code
\* is" when the phrase is there, whatever digits come before it; else the
\* first run of exactly six digits; else null.
C21_CursorExtractsCode == parsed.called => parsed.code = ExpectedCode(parsed.text)

(***************************************************************************)
(* The order of the steps of one event.                                    *)
(***************************************************************************)
\* the steps the handler can take from a position: reading, parsing,
\* inserting, forwarding, done, with a step that fails before the forwarding
\* going to the forwarding
PipelineOrder ==
    /\ pc' # pc =>
          \/ pc \in {"idle", "done"} /\ pc' = "reading"
          \/ pc = "reading" /\ pc' \in {"parsing", "forwarding"}
          \/ pc = "parsing" /\ pc' \in {"inserting", "forwarding"}
          \/ pc = "inserting" /\ pc' = "forwarding"
          \/ pc = "forwarding" /\ pc' = "done"
    /\ pc \in {"reading", "parsing", "inserting"} /\ failed' # failed => pc' = "forwarding"
    /\ pc' \in {"parsing", "inserting"} => failed' = failed
    /\ pc = "reading" /\ pc' = "forwarding" => failed' # failed
    /\ pc = "parsing" /\ pc' = "forwarding" => failed' # failed
    /\ Len(forwardCalls') \in {0, Len(forwardCalls), Len(forwardCalls) + 1}

\* no step overlaps another: the stream is read to its end when the parse
\* runs, no forward call is made while the stream is read, the message
\* parsed or the INSERT run, and the forward calls follow the list with at
\* most the last one still running
StepsDoNotOverlap ==
    /\ pc = "parsing" => Len(stream) = 0 /\ failed = {}
    /\ pc = "inserting" => inserts = 1 /\ failed = {}
    /\ pc \in {"reading", "parsing", "inserting"} => forwardCalls = <<>>
    /\ pc \in {"reading", "parsing"} => inserts = 0
    /\ forwardCalls # <<>> =>
          /\ list = ForwardList(forward_address)
          /\ Len(forwardCalls) <= Len(list)
          /\ \A i \in 1..Len(forwardCalls) : forwardCalls[i].address = list[i]
          /\ \A i \in 1..(Len(forwardCalls) - 1) : forwardCalls[i].outcome # "pending"
          /\ forwardCalls[Len(forwardCalls)].outcome = "pending" <=> pc = "forwarding"

\* C22: the steps of one event come one after the other: the stream is read
\* to its end before the parse, the INSERT has returned or failed before the
\* first forward call, the forward calls come one at a time in the order of
\* the list, and the handler goes from reading to parsing to inserting to
\* forwarding to done, a failure before the forwarding leading straight to
\* the forwarding.
C22_StepsTotallyOrdered == []StepsDoNotOverlap /\ [][PipelineOrder]_vars

\* an event went through every step without a failure: a chunk read, a row
\* stored, three forward calls made
C22_Witness ==
    /\ pc = "done"
    /\ failed = {}
    /\ bytesRead > 0
    /\ inserts = 1
    /\ Len(forwardCalls) = 3
    /\ result = "resolved"

(***************************************************************************)
(* Termination of the email handler.                                       *)
(***************************************************************************)
Running == pc \in {"reading", "parsing", "inserting", "forwarding"}

StageRank(p) ==
    CASE p = "reading" -> 1
      [] p = "parsing" -> 2
      [] p = "inserting" -> 3
      [] p = "forwarding" -> 4
      [] OTHER -> 5

\* a step of a running handler moves it to a later position, or takes a
\* chunk off the stream, or moves the forward loop to the next piece of the
\* list
Advances ==
    Running /\ mailVars' # mailVars =>
       /\ events' = events
       /\ \/ StageRank(pc') > StageRank(pc)
          \/ pc' = pc /\ pc = "reading" /\ Len(stream') < Len(stream)
          \/ pc' = pc /\ pc = "forwarding" /\ idx' = idx + 1 /\ idx' <= Len(list)

\* C23: an invocation of the email handler terminates when the stream ends
\* or fails and every storage and forward call returns or fails: a step
\* never leads back, the read loop ends with the stream and the forward
\* loop makes at most one call for each piece of the list.
C23_HandlerTerminates ==
    /\ Running ~> pc = "done"
    /\ [](Len(forwardCalls) <= Len(list))
    /\ [][Advances]_vars

\* the second event is done: its read loop took a chunk and its forward
\* loop made one call for each of three pieces
C23_Witness ==
    /\ pc = "done"
    /\ events = 2
    /\ bytesRead = 1
    /\ Len(list) = 3
    /\ Len(forwardCalls) = Len(list)
====
